---- MODULE Spec2Model ----
(***************************************************************************)
(* A model of IGCParser (src/igc.py): the line-by-line scan of an IGC      *)
(* flight log, the dispatch on the leading character of every line, and    *)
(* the decoders of the manufacturer, header and position records.          *)
(*                                                                         *)
(* A Python str is modelled as a sequence of one-character strings, so     *)
(* that slicing, strip() and startswith() are computed as Python computes  *)
(* them.  A float is modelled by its exact rational value; latitude and    *)
(* longitude, the only non-integral floats, are kept as that value times   *)
(* CoordScale (sixtieths of a degree), which is an integer.                *)
(***************************************************************************)
EXTENDS Integers, Sequences, FiniteSets, TLC

\* ------------------------------------------------------------------ bounds
\* The longest file the model reads, in lines.
MaxLines == 3

\* ------------------------------------------------------- program constants
\* len(line) < 35 in _parse_position.
MinPositionLength == 35
\* len(flight_date_str) == 6 in _parse_metadata.
DateLength == 6
\* The divisor of the minutes part of a coordinate: float(...) / 60.0.
CoordScale == 60

\* ----------------------------------------------------------- Python strings
Digits == {"0", "1", "2", "3", "4", "5", "6", "7", "8", "9"}

\* The characters str.strip() removes.
Whitespace == {" ", "\n", "\t", "\r"}

Min(a, b) == IF a < b THEN a ELSE b

\* s[a:b] for 0 <= a and 0 <= b (Python clamps both ends to len(s)).
Slice(s, a, b) == SubSeq(s, a + 1, Min(b, Len(s)))

\* s[a:] for 0 <= a.
SliceFrom(s, a) == SubSeq(s, a + 1, Len(s))

\* s[a:-1] for 0 <= a.
SliceButLast(s, a) == SubSeq(s, a + 1, Len(s) - 1)

\* s[-1] of a non-empty s.
LastChar(s) == s[Len(s)]

RECURSIVE LStrip(_)
\* s.lstrip()
LStrip(s) == IF s # <<>> /\ Head(s) \in Whitespace THEN LStrip(Tail(s)) ELSE s

RECURSIVE RStrip(_)
\* s.rstrip()
RStrip(s) ==
    IF s # <<>> /\ s[Len(s)] \in Whitespace THEN RStrip(SubSeq(s, 1, Len(s) - 1))
    ELSE s

\* s.strip()
Strip(s) == RStrip(LStrip(s))

\* s.startswith(p)
StartsWith(s, p) == Len(s) >= Len(p) /\ SubSeq(s, 1, Len(p)) = p

DigitVal(c) ==
    CASE c = "0" -> 0 [] c = "1" -> 1 [] c = "2" -> 2 [] c = "3" -> 3
      [] c = "4" -> 4 [] c = "5" -> 5 [] c = "6" -> 6 [] c = "7" -> 7
      [] c = "8" -> 8 [] c = "9" -> 9

RECURSIVE DigitsVal(_)
\* int() of a string of decimal digits.
DigitsVal(s) ==
    IF s = <<>> THEN 0
    ELSE 10 * DigitsVal(SubSeq(s, 1, Len(s) - 1)) + DigitVal(s[Len(s)])

AllDigits(s) == s # <<>> /\ \A k \in 1..Len(s) : s[k] \in Digits

\* float(s) accepts s: surrounding whitespace, an optional sign, then decimal
\* digits.  (The other forms float() accepts, a decimal point, an exponent,
\* underscores, inf and nan, need a character the lines of Corpus never put
\* into a numeric column.)
FloatOk(s) ==
    LET t == Strip(s)
    IN  IF t # <<>> /\ t[1] \in {"+", "-"} THEN AllDigits(Tail(t))
        ELSE AllDigits(t)

\* float(s) of a string float() accepts.
FloatVal(s) ==
    LET t == Strip(s)
    IN  IF t[1] = "-" THEN 0 - DigitsVal(Tail(t))
        ELSE IF t[1] = "+" THEN DigitsVal(Tail(t))
        ELSE DigitsVal(t)

\* -------------------------------------------------------- datetime.strptime
\* A directive of a strptime format is a regular expression with ordered
\* alternatives, each a sequence of character classes; the format is matched
\* with re.match, so the alternatives are tried in order with backtracking
\* and the first match found wins, whether or not it reaches the end of the
\* string.
D01 == {"0", "1"}
D03 == {"0", "1", "2", "3"}
D05 == {"0", "1", "2", "3", "4", "5"}
D12 == {"1", "2"}
D19 == Digits \ {"0"}

\* %H: 2[0-3]|[0-1]\d|\d
DirectiveH == << <<{"2"}, D03>>, <<D01, Digits>>, <<Digits>> >>
\* %M: [0-5]\d|\d
DirectiveM == << <<D05, Digits>>, <<Digits>> >>
\* %S: 6[0-1]|[0-5]\d|\d
DirectiveS == << <<{"6"}, D01>>, <<D05, Digits>>, <<Digits>> >>
\* %d: 3[0-1]|[1-2]\d|0[1-9]|[1-9]| [1-9]
DirectiveD ==
    << <<{"3"}, D01>>, <<D12, Digits>>, <<{"0"}, D19>>, <<D19>>, <<{" "}, D19>> >>
\* %m: 1[0-2]|0[1-9]|[1-9]
DirectiveMonth == << <<{"1"}, {"0", "1", "2"}>>, <<{"0"}, D19>>, <<D19>> >>
\* %y: \d\d
DirectiveY == << <<Digits, Digits>> >>

\* The alternative alt matches s at (1-based) position p.
AltAt(s, p, alt) ==
    /\ p + Len(alt) - 1 <= Len(s)
    /\ \A k \in 1..Len(alt) : s[p + k - 1] \in alt[k]

\* The matches of the three directives in a row from the start of s, each as
\* the indices <<a, b, c>> of the alternatives taken.
Matches3(s, d1, d2, d3) ==
    {t \in (DOMAIN d1) \X (DOMAIN d2) \X (DOMAIN d3) :
        /\ AltAt(s, 1, d1[t[1]])
        /\ AltAt(s, 1 + Len(d1[t[1]]), d2[t[2]])
        /\ AltAt(s, 1 + Len(d1[t[1]]) + Len(d2[t[2]]), d3[t[3]])}

LexLeq(t, u) ==
    \/ t[1] < u[1]
    \/ t[1] = u[1] /\ t[2] < u[2]
    \/ t[1] = u[1] /\ t[2] = u[2] /\ t[3] <= u[3]

\* The match re.match finds: the first in the order of the alternatives.
FirstMatch(s, d1, d2, d3) ==
    CHOOSE t \in Matches3(s, d1, d2, d3) :
        \A u \in Matches3(s, d1, d2, d3) : LexLeq(t, u)

\* The three groups of the match t, as numbers, and the end of the match.
MatchGroups(s, d1, d2, d3, t) ==
    LET n1 == Len(d1[t[1]])
        n2 == Len(d2[t[2]])
        n3 == Len(d3[t[3]])
    IN  [g1  |-> DigitsVal(Strip(SubSeq(s, 1, n1))),
         g2  |-> DigitsVal(SubSeq(s, n1 + 1, n1 + n2)),
         g3  |-> DigitsVal(SubSeq(s, n1 + n2 + 1, n1 + n2 + n3)),
         end |-> n1 + n2 + n3]

IsLeap(y) == (y % 4 = 0 /\ y % 100 # 0) \/ y % 400 = 0

DaysInMonth(y, m) ==
    IF m = 2 THEN (IF IsLeap(y) THEN 29 ELSE 28)
    ELSE IF m \in {4, 6, 9, 11} THEN 30 ELSE 31

\* datetime.strptime(s, "%H%M%S"): the time of day on 1900-01-01, or a
\* ValueError (no match, unconverted data, or a second of 60 or 61, which
\* %S matches and datetime rejects).
StrptimeHMS(s) ==
    IF Matches3(s, DirectiveH, DirectiveM, DirectiveS) = {} THEN [ok |-> FALSE]
    ELSE LET g == MatchGroups(s, DirectiveH, DirectiveM, DirectiveS,
                              FirstMatch(s, DirectiveH, DirectiveM, DirectiveS))
         IN  IF g.end # Len(s) \/ g.g3 > 59 THEN [ok |-> FALSE]
             ELSE [ok |-> TRUE,
                   value |-> [year |-> 1900, month |-> 1, day |-> 1,
                              hour |-> g.g1, minute |-> g.g2, second |-> g.g3]]

\* %y: 69..99 are 1969..1999 and 00..68 are 2000..2068.
CenturyOf(yy) == IF yy <= 68 THEN 2000 + yy ELSE 1900 + yy

\* datetime.strptime(s, "%d%m%y"): midnight of the date, or a ValueError (no
\* match, unconverted data, or a day the month does not have).
StrptimeDMY(s) ==
    IF Matches3(s, DirectiveD, DirectiveMonth, DirectiveY) = {} THEN [ok |-> FALSE]
    ELSE LET g == MatchGroups(s, DirectiveD, DirectiveMonth, DirectiveY,
                              FirstMatch(s, DirectiveD, DirectiveMonth, DirectiveY))
         IN  IF g.end # Len(s) \/ g.g1 > DaysInMonth(CenturyOf(g.g3), g.g2)
             THEN [ok |-> FALSE]
             ELSE [ok |-> TRUE,
                   value |-> [year |-> CenturyOf(g.g3), month |-> g.g2, day |-> g.g1,
                              hour |-> 0, minute |-> 0, second |-> 0]]

\* ------------------------------------------------------------------- errors
\* An exception that ends the parse: its class and the line of src/igc.py
\* that raises it.  No handler catches any, so each is fatal.
NoError == [exc |-> "none", lineno |-> 0]
ValueErrorAt(n) == [exc |-> "ValueError", lineno |-> n]
AttributeErrorAt(n) == [exc |-> "AttributeError", lineno |-> n]

\* flight_date is annotated on the class but given no value there: until
\* _parse_metadata assigns it the attribute does not exist, and reading it
\* raises AttributeError.  Absence is the date of year 0, which no datetime has.
Unset == [year |-> 0, month |-> 0, day |-> 0, hour |-> 0, minute |-> 0, second |-> 0]

\* ------------------------------------------------------- _parse_manufacturer
ManufacturerFields(line) ==
    [manufacturer_id |-> Strip(Slice(line, 1, 4)),
     logger_id       |-> Strip(Slice(line, 4, 7)),
     additional_info |-> Strip(SliceFrom(line, 7))]

\* ----------------------------------------------------------- _parse_metadata
PrefixPilot == <<"H", "F", "P", "L", "T", "P", "I", "L", "O", "T">>
PrefixDatum ==
    <<"H", "F", "D", "T", "M", "1", "0", "0", "G", "P", "S", "D", "A", "T", "U", "M">>
PrefixDate == <<"H", "F", "D", "T", "E", "D", "A", "T", "E">>

PilotName(line) == Strip(SliceFrom(line, 11))
GpsDatum(line) == Strip(SliceFrom(line, 17))
FlightDateStr(line) == Strip(SliceFrom(line, 10))

\* The HFDTEDATE branch: the date the line carries, or the ValueError raised.
DecodeFlightDate(line) ==
    LET flight_date_str == FlightDateStr(line)
    IN  IF Len(flight_date_str) = DateLength
        THEN LET d == StrptimeDMY(flight_date_str)
             IN  IF d.ok THEN [err |-> NoError, value |-> d.value]
                 ELSE [err |-> ValueErrorAt(129)]
        ELSE [err |-> ValueErrorAt(131)]

\* A variant of AssignFlightDate that keeps the first date: what "set at most
\* once" would be.
AssignFlightDate_SetOnce(old, new) == IF old = Unset THEN new ELSE old

\* self.flight_date = ...: the assignment replaces whatever was there.
AssignFlightDate(old, new) == new

\* ----------------------------------------------------------- _parse_position
\* A variant of PositionTooShort with the limit off by one.
PositionTooShort_OffByOne(line) == Len(line) < MinPositionLength - 1

PositionTooShort(line) == Len(line) < MinPositionLength

\* A variant of DecodeTimestamp for a flight_date that has a default on the
\* class: reading it never raises.
DecodeTimestamp_DefaultDate(timestamp_str, fd) ==
    LET t == StrptimeHMS(timestamp_str)
    IN  IF ~t.ok THEN [err |-> ValueErrorAt(165)]
        ELSE [err |-> NoError,
              value |-> [t.value EXCEPT !.year = fd.year, !.month = fd.month,
                                        !.day = fd.day]]

\* A variant of DecodeTimestamp whose replace() leaves the day out.
DecodeTimestamp_KeepsDay(timestamp_str, fd) ==
    LET t == StrptimeHMS(timestamp_str)
    IN  IF ~t.ok THEN [err |-> ValueErrorAt(165)]
        ELSE IF fd = Unset THEN [err |-> AttributeErrorAt(167)]
        ELSE [err |-> NoError,
              value |-> [t.value EXCEPT !.year = fd.year, !.month = fd.month]]

\* Lines 164-170: strptime of the time of day, then replace() with the year,
\* month and day read from self.flight_date.
DecodeTimestamp(timestamp_str, fd) ==
    LET t == StrptimeHMS(timestamp_str)
    IN  IF ~t.ok THEN [err |-> ValueErrorAt(165)]
        ELSE IF fd = Unset THEN [err |-> AttributeErrorAt(167)]
        ELSE [err |-> NoError,
              value |-> [t.value EXCEPT !.year = fd.year, !.month = fd.month,
                                        !.day = fd.day]]

\* A variant of ApplyHemisphere that never negates.
ApplyHemisphere_NeverNegates(value, hemisphere, negative) == value

\* if s[-1] == negative: value = -value
ApplyHemisphere(value, hemisphere, negative) ==
    IF hemisphere = negative THEN 0 - value ELSE value

\* float(s[:n]) + float(s[n:-1]) / 60.0, in sixtieths of a degree.
CoordMagnitude(degrees_str, minutes_str) ==
    CoordScale * FloatVal(degrees_str) + FloatVal(minutes_str)

\* Lines 173-175 (n = 2, negative = "S", at = 173) and 178-180 (n = 3,
\* negative = "W", at = 178).
DecodeCoordinate(s, n, negative, at) ==
    IF ~FloatOk(Slice(s, 0, n)) \/ ~FloatOk(SliceButLast(s, n))
    THEN [err |-> ValueErrorAt(at)]
    ELSE [err |-> NoError,
          value |-> ApplyHemisphere(CoordMagnitude(Slice(s, 0, n), SliceButLast(s, n)),
                                    LastChar(s), negative)]

\* float(s) of an altitude column.
DecodeAltitude(s, at) ==
    IF FloatOk(s) THEN [err |-> NoError, value |-> FloatVal(s)]
    ELSE [err |-> ValueErrorAt(at)]

\* _parse_position up to the append: the PositionRecord of the line, or the
\* first exception raised, in the order the statements run.
DecodePosition(line, fd) ==
    IF PositionTooShort(line) THEN [err |-> ValueErrorAt(155)]
    ELSE LET timestamp_str         == Strip(Slice(line, 1, 7))
             latitude_str          == Strip(Slice(line, 7, 15))
             longitude_str         == Strip(Slice(line, 15, 24))
             av_flag_str           == Strip(Slice(line, 24, 25))
             pressure_altitude_str == Strip(Slice(line, 25, 30))
             gps_altitude_str      == Strip(Slice(line, 30, 35))
             timestamp         == DecodeTimestamp(timestamp_str, fd)
             latitude          == DecodeCoordinate(latitude_str, 2, "S", 173)
             longitude         == DecodeCoordinate(longitude_str, 3, "W", 178)
             pressure_altitude == DecodeAltitude(pressure_altitude_str, 186)
             gps_altitude      == DecodeAltitude(gps_altitude_str, 189)
         IN  IF timestamp.err # NoError THEN [err |-> timestamp.err]
             ELSE IF latitude.err # NoError THEN [err |-> latitude.err]
             ELSE IF longitude.err # NoError THEN [err |-> longitude.err]
             ELSE IF pressure_altitude.err # NoError THEN [err |-> pressure_altitude.err]
             ELSE IF gps_altitude.err # NoError THEN [err |-> gps_altitude.err]
             ELSE [err |-> NoError,
                   value |-> [timestamp         |-> timestamp.value,
                              latitude          |-> latitude.value,
                              longitude         |-> longitude.value,
                              av_flag           |-> (av_flag_str = <<"A">>),
                              pressure_altitude |-> pressure_altitude.value,
                              gps_altitude      |-> gps_altitude.value]]

\* A variant of AppendRecord that inserts at the front.
AppendRecord_Prepend(records, record) == <<record>> \o records

\* self.position_records.append(position_record)
AppendRecord(records, record) == Append(records, record)

\* ------------------------------------------------------------- input lines
\* The raw lines the model's files are made of, each as readlines() gives it.
\* AXBM001 BURNAIR V1.0.0 ID:00000001\n
L_Manufacturer ==
    << "A", "X", "B", "M", "0", "0", "1", " ", "B", "U", "R", "N",
       "A", "I", "R", " ", "V", "1", ".", "0", ".", "0", " ", "I",
       "D", ":", "0", "0", "0", "0", "0", "0", "0", "1", "\n" >>

\* AXB\n
L_ManufacturerShort ==
    << "A", "X", "B", "\n" >>

\* HFDTEDATE:100525\n
L_Date ==
    << "H", "F", "D", "T", "E", "D", "A", "T", "E", ":", "1", "0",
       "0", "5", "2", "5", "\n" >>

\* HFDTEDATE:290224\n
L_Date2 ==
    << "H", "F", "D", "T", "E", "D", "A", "T", "E", ":", "2", "9",
       "0", "2", "2", "4", "\n" >>

\* HFDTEDATE:300225\n
L_DateNoDay ==
    << "H", "F", "D", "T", "E", "D", "A", "T", "E", ":", "3", "0",
       "0", "2", "2", "5", "\n" >>

\* HFPLTPILOT:Florian\n
L_Pilot ==
    << "H", "F", "P", "L", "T", "P", "I", "L", "O", "T", ":", "F",
       "l", "o", "r", "i", "a", "n", "\n" >>

\* HFDTM100GPSDATUM:WGS-84\n
L_Datum ==
    << "H", "F", "D", "T", "M", "1", "0", "0", "G", "P", "S", "D",
       "A", "T", "U", "M", ":", "W", "G", "S", "-", "8", "4", "\n" >>

\* HFFXA035\n
L_HeaderOther ==
    << "H", "F", "F", "X", "A", "0", "3", "5", "\n" >>

\* B0955324650345N00824866EA0000001909\n
L_Fix1 ==
    << "B", "0", "9", "5", "5", "3", "2", "4", "6", "5", "0", "3",
       "4", "5", "N", "0", "0", "8", "2", "4", "8", "6", "6", "E",
       "A", "0", "0", "0", "0", "0", "0", "1", "9", "0", "9", "\n" >>

\* B1602405407121S00249342WA002800042120509950\n
L_Fix2 ==
    << "B", "1", "6", "0", "2", "4", "0", "5", "4", "0", "7", "1",
       "2", "1", "S", "0", "0", "2", "4", "9", "3", "4", "2", "W",
       "A", "0", "0", "2", "8", "0", "0", "0", "4", "2", "1", "2",
       "0", "5", "0", "9", "9", "5", "0", "\n" >>

\* B0000000000000S00000000WV0000000000\n
L_FixZero ==
    << "B", "0", "0", "0", "0", "0", "0", "0", "0", "0", "0", "0",
       "0", "0", "S", "0", "0", "0", "0", "0", "0", "0", "0", "W",
       "V", "0", "0", "0", "0", "0", "0", "0", "0", "0", "0", "\n" >>

\* B2460004650345N00824866EA0000001909\n
L_FixBadTime ==
    << "B", "2", "4", "6", "0", "0", "0", "4", "6", "5", "0", "3",
       "4", "5", "N", "0", "0", "8", "2", "4", "8", "6", "6", "E",
       "A", "0", "0", "0", "0", "0", "0", "1", "9", "0", "9", "\n" >>

\* B0955324650345N00824866EA00x0001909\n
L_FixBadAlt ==
    << "B", "0", "9", "5", "5", "3", "2", "4", "6", "5", "0", "3",
       "4", "5", "N", "0", "0", "8", "2", "4", "8", "6", "6", "E",
       "A", "0", "0", "x", "0", "0", "0", "1", "9", "0", "9", "\n" >>

\* B095532465034N00824866EA0000001909\n
L_FixShort ==
    << "B", "0", "9", "5", "5", "3", "2", "4", "6", "5", "0", "3",
       "4", "N", "0", "0", "8", "2", "4", "8", "6", "6", "E", "A",
       "0", "0", "0", "0", "0", "0", "1", "9", "0", "9", "\n" >>

\* \n
L_Empty ==
    << "\n" >>

\* LXBM note\n
L_Comment ==
    << "L", "X", "B", "M", " ", "n", "o", "t", "e", "\n" >>

\* G1A2B3C\n
L_Security ==
    << "G", "1", "A", "2", "B", "3", "C", "\n" >>

\* I013638FXA\n
L_Unknown ==
    << "I", "0", "1", "3", "6", "3", "8", "F", "X", "A", "\n" >>

\* AXBM001 BURNAIR V1.0.0 ID:00000001
S_Manufacturer ==
    << "A", "X", "B", "M", "0", "0", "1", " ", "B", "U", "R", "N",
       "A", "I", "R", " ", "V", "1", ".", "0", ".", "0", " ", "I",
       "D", ":", "0", "0", "0", "0", "0", "0", "0", "1" >>

\* HFDTEDATE100525
S_Date ==
    << "H", "F", "D", "T", "E", "D", "A", "T", "E", "1", "0", "0",
       "5", "2", "5" >>

\* HFPLTPILOTFlorian Trautweiler
S_Pilot ==
    << "H", "F", "P", "L", "T", "P", "I", "L", "O", "T", "F", "l",
       "o", "r", "i", "a", "n", " ", "T", "r", "a", "u", "t", "w",
       "e", "i", "l", "e", "r" >>

\* B095532 4650345N 00824866E A 00000 01909
S_Fix ==
    << "B", "0", "9", "5", "5", "3", "2", " ", "4", "6", "5", "0",
       "3", "4", "5", "N", " ", "0", "0", "8", "2", "4", "8", "6",
       "6", "E", " ", "A", " ", "0", "0", "0", "0", "0", " ", "0",
       "1", "9", "0", "9" >>

\* -------------------------------------------------------------------- input
\* The files the model reads: every sequence of at most MaxLines lines of
\* Corpus, alone or after a date header, and the four-line file of the
\* specification's scenario.
Corpus ==
    {L_Manufacturer, L_ManufacturerShort, L_Date, L_Date2, L_DateNoDay, L_Pilot,
     L_Datum, L_HeaderOther, L_Fix1, L_Fix2, L_FixZero, L_FixBadTime,
     L_FixBadAlt, L_FixShort, L_Empty, L_Comment, L_Security, L_Unknown}

Scenario == <<S_Manufacturer, S_Date, S_Pilot, S_Fix>>

Bodies == UNION {[1..n -> Corpus] : n \in 0..MaxLines}

Files == Bodies \cup {<<L_Date>> \o b : b \in Bodies} \cup {Scenario}

\* -------------------------------------------------------------------- state
VARIABLES
    lines,             \* self.lines: the raw lines of the file
    i,                 \* the line the loop of _parse handles next (1-based)
    pc,                \* "parse": in the loop; "done": returned; "failed": raised
    error,             \* the exception that ended the parse, or NoError
    flight_date,       \* self.flight_date, or Unset
    gps_datum,         \* self.gps_datum
    pilot_name,        \* self.pilot_name
    manufacturer_id,   \* self.manufacturer_id
    logger_id,         \* self.logger_id
    additional_info,   \* self.additional_info
    position_records,  \* self.position_records
    log                \* the records handed to the module's logger

metadata == <<gps_datum, pilot_name, manufacturer_id, logger_id, additional_info>>
vars == <<lines, i, pc, error, flight_date, metadata, position_records, log>>

\* The state when __init__ calls _parse and the file has been read.
Init ==
    /\ lines \in Files
    /\ i = 1
    /\ pc = "parse"
    /\ error = NoError
    /\ flight_date = Unset
    /\ gps_datum = <<>>
    /\ pilot_name = <<>>
    /\ manufacturer_id = <<>>
    /\ logger_id = <<>>
    /\ additional_info = <<>>
    /\ position_records = <<>>
    /\ log = <<>>

\* line = line.strip() of the line the loop is at.
CurrentLine == Strip(lines[i])

InLoop == pc = "parse" /\ i <= Len(lines)

\* The branch of _parse_record the line takes.
RecordType(line) ==
    IF StartsWith(line, <<"A">>) THEN "A"
    ELSE IF StartsWith(line, <<"H">>) THEN "H"
    ELSE IF StartsWith(line, <<"B">>) THEN "B"
    ELSE IF StartsWith(line, <<"L">>) THEN "L"
    ELSE IF StartsWith(line, <<"G">>) THEN "G"
    ELSE "unknown"

\* The handler returns and the loop goes on to the next line.
Continue == i' = i + 1 /\ UNCHANGED <<lines, pc, error>>

\* The handler raises: the exception leaves _parse and __init__.
Raise(e) ==
    /\ pc' = "failed"
    /\ error' = e
    /\ UNCHANGED <<lines, i, flight_date, metadata, position_records, log>>

LogRecord(level, line) ==
    [level |-> level, record_type |-> Slice(line, 0, 1), line |-> line]

ParseManufacturer ==
    /\ InLoop
    /\ RecordType(CurrentLine) = "A"
    /\ manufacturer_id' = ManufacturerFields(CurrentLine).manufacturer_id
    /\ logger_id' = ManufacturerFields(CurrentLine).logger_id
    /\ additional_info' = ManufacturerFields(CurrentLine).additional_info
    /\ Continue
    /\ UNCHANGED <<flight_date, gps_datum, pilot_name, position_records, log>>

ParseMetadata ==
    /\ InLoop
    /\ RecordType(CurrentLine) = "H"
    /\ IF StartsWith(CurrentLine, PrefixPilot)
       THEN /\ pilot_name' = PilotName(CurrentLine)
            /\ Continue
            /\ UNCHANGED <<flight_date, gps_datum, manufacturer_id, logger_id,
                           additional_info, position_records, log>>
       ELSE IF StartsWith(CurrentLine, PrefixDatum)
       THEN /\ gps_datum' = GpsDatum(CurrentLine)
            /\ Continue
            /\ UNCHANGED <<flight_date, pilot_name, manufacturer_id, logger_id,
                           additional_info, position_records, log>>
       ELSE IF StartsWith(CurrentLine, PrefixDate)
       THEN LET decoded == DecodeFlightDate(CurrentLine)
            IN  IF decoded.err = NoError
                THEN /\ flight_date' = AssignFlightDate(flight_date, decoded.value)
                     /\ Continue
                     /\ UNCHANGED <<metadata, position_records, log>>
                ELSE Raise(decoded.err)
       ELSE /\ Continue
            /\ UNCHANGED <<flight_date, metadata, position_records, log>>

ParsePosition ==
    /\ InLoop
    /\ RecordType(CurrentLine) = "B"
    /\ LET decoded == DecodePosition(CurrentLine, flight_date)
       IN  IF decoded.err = NoError
           THEN /\ position_records' = AppendRecord(position_records, decoded.value)
                /\ Continue
                /\ UNCHANGED <<flight_date, metadata, log>>
           ELSE Raise(decoded.err)

CommentLine ==
    /\ InLoop
    /\ RecordType(CurrentLine) = "L"
    /\ log' = Append(log, LogRecord("DEBUG", CurrentLine))
    /\ Continue
    /\ UNCHANGED <<flight_date, metadata, position_records>>

SecurityKeyLine ==
    /\ InLoop
    /\ RecordType(CurrentLine) = "G"
    /\ log' = Append(log, LogRecord("DEBUG", CurrentLine))
    /\ Continue
    /\ UNCHANGED <<flight_date, metadata, position_records>>

UnknownRecord ==
    /\ InLoop
    /\ RecordType(CurrentLine) = "unknown"
    /\ log' = Append(log, LogRecord("WARNING", CurrentLine))
    /\ Continue
    /\ UNCHANGED <<flight_date, metadata, position_records>>

\* The loop has handled the last line: _parse returns.
Finish ==
    /\ pc = "parse"
    /\ i > Len(lines)
    /\ pc' = "done"
    /\ UNCHANGED <<lines, i, error, flight_date, metadata, position_records, log>>

Next ==
    \/ ParseManufacturer
    \/ ParseMetadata
    \/ ParsePosition
    \/ CommentLine
    \/ SecurityKeyLine
    \/ UnknownRecord
    \/ Finish

Spec == Init /\ [][Next]_vars

\* ------------------------------------------------ vocabulary of the properties
\* The error kinds of the specification, as the exceptions of the code.
RecordTooShort == ValueErrorAt(155)
DateNotYetKnown == AttributeErrorAt(167)
MalformedTime == ValueErrorAt(165)

IsPositionLine(raw) == RecordType(Strip(raw)) = "B"

\* The `B` lines of the file, trimmed, in file order.
PositionLines == [k \in DOMAIN SelectSeq(lines, IsPositionLine) |->
                    Strip(SelectSeq(lines, IsPositionLine)[k])]

\* The numbers written in the fixed columns of a `B` line.
HourOf(line) == DigitsVal(Slice(line, 1, 3))
MinuteOf(line) == DigitsVal(Slice(line, 3, 5))
SecondOf(line) == DigitsVal(Slice(line, 5, 7))
LatDegreesOf(line) == DigitsVal(Slice(line, 7, 9))
LatMinutesOf(line) == DigitsVal(Slice(line, 9, 14))
LatHemisphereOf(line) == line[15]
LonDegreesOf(line) == DigitsVal(Slice(line, 15, 18))
LonMinutesOf(line) == DigitsVal(Slice(line, 18, 23))
LonHemisphereOf(line) == line[24]

\* Columns [1,7) are six digits HHMMSS of a time of day.
WellFormedTime(line) ==
    /\ Len(line) >= 7
    /\ AllDigits(Slice(line, 1, 7))
    /\ HourOf(line) <= 23 /\ MinuteOf(line) <= 59 /\ SecondOf(line) <= 59

\* A `B` line with every fixed column in the format of section 4.4.
WellFormedFix(line) ==
    /\ RecordType(line) = "B"
    /\ Len(line) >= 35
    /\ WellFormedTime(line)
    /\ AllDigits(Slice(line, 7, 14)) /\ LatHemisphereOf(line) \in {"N", "S"}
    /\ AllDigits(Slice(line, 15, 23)) /\ LonHemisphereOf(line) \in {"E", "W"}
    /\ line[25] \in {"A", "V"}
    /\ AllDigits(Slice(line, 25, 30))
    /\ AllDigits(Slice(line, 30, 35))

\* Columns [10,16) of an HFDTEDATE line are six digits DDMMYY of a calendar date.
WellFormedDateLine(line) ==
    /\ StartsWith(line, PrefixDate)
    /\ Len(line) = 16
    /\ AllDigits(Slice(line, 10, 16))
    /\ DigitsVal(Slice(line, 12, 14)) \in 1..12
    /\ DigitsVal(Slice(line, 10, 12)) \in
          1..DaysInMonth(CenturyOf(DigitsVal(Slice(line, 14, 16))),
                         DigitsVal(Slice(line, 12, 14)))

DateOfLine(line) ==
    [year |-> CenturyOf(DigitsVal(Slice(line, 14, 16))),
     month |-> DigitsVal(Slice(line, 12, 14)),
     day |-> DigitsVal(Slice(line, 10, 12)),
     hour |-> 0, minute |-> 0, second |-> 0]

SameDay(a, b) == a.year = b.year /\ a.month = b.month /\ a.day = b.day

LastRecord(records) == records[Len(records)]

Str_XBM == <<"X", "B", "M">>
Str_001 == <<"0", "0", "1">>
Str_Pilot ==
    <<"F", "l", "o", "r", "i", "a", "n", " ",
      "T", "r", "a", "u", "t", "w", "e", "i", "l", "e", "r">>

\* ------------------------------------------------------------------------ C1
\* C1, as stated: a `B` line of 35 characters or more scanned while
\* flight_date is unset ends the parse with DateNotYetKnown and appends no
\* record.
C1_DateNotYetKnown ==
    [][(InLoop /\ RecordType(CurrentLine) = "B" /\ Len(CurrentLine) >= 35
              /\ flight_date = Unset)
         => (pc' = "failed" /\ error' = DateNotYetKnown
              /\ position_records' = position_records)]_vars

\* C1, amended: such a line always ends the parse and appends no record; the
\* error is DateNotYetKnown when columns [1,7) are a well-formed time of day,
\* and otherwise either that or the ValueError of strptime, which runs before
\* flight_date is read.
C1_DateNotYetKnownAfterTime ==
    [][(InLoop /\ RecordType(CurrentLine) = "B" /\ Len(CurrentLine) >= 35
              /\ flight_date = Unset)
         => (/\ pc' = "failed"
             /\ position_records' = position_records
             /\ error' \in {DateNotYetKnown, MalformedTime}
             /\ WellFormedTime(CurrentLine) => error' = DateNotYetKnown)]_vars

\* The parse has stopped with DateNotYetKnown at a `B` line.
C1_Witness ==
    /\ pc = "failed" /\ error = DateNotYetKnown /\ flight_date = Unset
    /\ RecordType(CurrentLine) = "B" /\ Len(CurrentLine) >= 35

\* ------------------------------------------------------------------------ C2
\* C2: a `B` line shorter than 35 characters after trimming ends the parse
\* with RecordTooShort, in every parser state, and leaves the track as it was.
C2_RecordTooShort ==
    [][(InLoop /\ RecordType(CurrentLine) = "B" /\ Len(CurrentLine) < 35)
         => (pc' = "failed" /\ error' = RecordTooShort
              /\ position_records' = position_records)]_vars

\* A short `B` line has stopped a parse that knew the date and had a track.
C2_Witness ==
    /\ pc = "failed" /\ error = RecordTooShort
    /\ RecordType(CurrentLine) = "B" /\ Len(CurrentLine) = 34
    /\ flight_date # Unset /\ position_records # <<>>

\* ------------------------------------------------------------------------ C3
\* C3: after a successful parse the track has one record per `B` line, and
\* the k-th record is the decoding of the k-th `B` line of the file.
C3_LineOrder ==
    pc = "done" =>
        /\ Len(position_records) = Len(PositionLines)
        /\ \A k \in 1..Len(position_records) :
              position_records[k] =
                  DecodePosition(PositionLines[k], position_records[k].timestamp).value

\* A successful parse of two different `B` lines with another record between.
C3_Witness ==
    /\ pc = "done" /\ Len(lines) = 4 /\ Len(position_records) = 2
    /\ position_records[1] # position_records[2]
    /\ IsPositionLine(lines[2]) /\ ~IsPositionLine(lines[3]) /\ IsPositionLine(lines[4])

\* ------------------------------------------------------------------------ C4
\* C4: a well-formed `B` line scanned with the date known appends a record
\* whose timestamp has the year, month and day of flight_date and the hour,
\* minute and second written in columns [1,7).
C4_Timestamp ==
    [][(InLoop /\ WellFormedFix(CurrentLine) /\ flight_date # Unset)
         => (/\ Len(position_records') = Len(position_records) + 1
             /\ SameDay(LastRecord(position_records').timestamp, flight_date)
             /\ LastRecord(position_records').timestamp.hour = HourOf(CurrentLine)
             /\ LastRecord(position_records').timestamp.minute = MinuteOf(CurrentLine)
             /\ LastRecord(position_records').timestamp.second = SecondOf(CurrentLine))]_vars

\* The fix of 16:02:40 has been decoded on 2024-02-29.
C4_Witness ==
    /\ position_records # <<>>
    /\ LastRecord(position_records).timestamp =
          [year |-> 2024, month |-> 2, day |-> 29, hour |-> 16, minute |-> 2, second |-> 40]

\* ------------------------------------------------------------------------ C5
\* C5: the record of a well-formed `B` line has latitude DD + (MMmmm/1000)/60
\* and longitude DDD + (MMmmm/1000)/60 before the sign is applied (with
\* latitude and longitude in sixtieths of a degree: 1000 times the magnitude
\* is DD * 60000 + MMmmm), and so within 90 and 180 degrees for fields in range.
C5_Minutes ==
    \A k \in 1..Len(position_records) :
        LET line == PositionLines[k]
            lat  == position_records[k].latitude
            lon  == position_records[k].longitude
        IN  WellFormedFix(line) =>
              /\ 1000 * (IF lat < 0 THEN 0 - lat ELSE lat) =
                    60000 * LatDegreesOf(line) + LatMinutesOf(line)
              /\ 1000 * (IF lon < 0 THEN 0 - lon ELSE lon) =
                    60000 * LonDegreesOf(line) + LonMinutesOf(line)
              /\ 60000 * LatDegreesOf(line) + LatMinutesOf(line) <= 90 * 60000
                    => (lat <= 90 * CoordScale /\ lat >= 0 - 90 * CoordScale)
              /\ 60000 * LonDegreesOf(line) + LonMinutesOf(line) <= 180 * 60000
                    => (lon <= 180 * CoordScale /\ lon >= 0 - 180 * CoordScale)

\* ------------------------------------------------------------------------ C6
\* C6, as stated: in the record of a well-formed `B` line, S gives a negative
\* latitude and N a non-negative one, W a negative longitude and E a
\* non-negative one, fields of all zeros included.
C6_Sign ==
    \A k \in 1..Len(position_records) :
        LET line == PositionLines[k]
        IN  WellFormedFix(line) =>
              /\ LatHemisphereOf(line) = "S" => position_records[k].latitude < 0
              /\ LatHemisphereOf(line) = "N" => position_records[k].latitude >= 0
              /\ LonHemisphereOf(line) = "W" => position_records[k].longitude < 0
              /\ LonHemisphereOf(line) = "E" => position_records[k].longitude >= 0

\* C6, amended: S gives a latitude that is not positive, and negative unless
\* the digits of the field are all zero (the value is then -0.0, which is not
\* less than zero); N gives a non-negative one; likewise W and E.
C6_SignUnlessZero ==
    \A k \in 1..Len(position_records) :
        LET line == PositionLines[k]
            lat  == position_records[k].latitude
            lon  == position_records[k].longitude
        IN  WellFormedFix(line) =>
              /\ LatHemisphereOf(line) = "S" =>
                    /\ lat <= 0
                    /\ (lat < 0) = (LatDegreesOf(line) + LatMinutesOf(line) > 0)
              /\ LatHemisphereOf(line) = "N" => lat >= 0
              /\ LonHemisphereOf(line) = "W" =>
                    /\ lon <= 0
                    /\ (lon < 0) = (LonDegreesOf(line) + LonMinutesOf(line) > 0)
              /\ LonHemisphereOf(line) = "E" => lon >= 0

\* A track with a fix south and west and a fix north and east.
C6_Witness ==
    \E j, k \in 1..Len(position_records) :
        /\ WellFormedFix(PositionLines[j]) /\ WellFormedFix(PositionLines[k])
        /\ LatHemisphereOf(PositionLines[j]) = "S" /\ position_records[j].latitude < 0
        /\ LonHemisphereOf(PositionLines[j]) = "W" /\ position_records[j].longitude < 0
        /\ LatHemisphereOf(PositionLines[k]) = "N" /\ position_records[k].latitude > 0
        /\ LonHemisphereOf(PositionLines[k]) = "E" /\ position_records[k].longitude > 0

\* ------------------------------------------------------------------------ C7
\* C7: the parse of the scenario's four lines succeeds with manufacturer_id
\* XBM, logger_id 001, flight_date 2025-05-10, pilot_name Florian
\* Trautweiler and the one record of 2025-05-10T09:55:32 at latitude
\* 46 deg 50.345 min (about 46.83908), longitude 8 deg 24.866 min (about
\* 8.41443), av_flag true, pressure altitude 0 and GPS altitude 1909.
C7_Scenario ==
    (lines = Scenario /\ pc # "parse") =>
        /\ pc = "done"
        /\ manufacturer_id = Str_XBM
        /\ logger_id = Str_001
        /\ SameDay(flight_date, [year |-> 2025, month |-> 5, day |-> 10])
        /\ pilot_name = Str_Pilot
        /\ Len(position_records) = 1
        /\ position_records[1].timestamp =
              [year |-> 2025, month |-> 5, day |-> 10,
               hour |-> 9, minute |-> 55, second |-> 32]
        /\ 1000 * position_records[1].latitude = 60000 * 46 + 50345
        /\ 1000 * position_records[1].longitude = 60000 * 8 + 24866
        /\ position_records[1].av_flag
        /\ position_records[1].pressure_altitude = 0
        /\ position_records[1].gps_altitude = 1909

\* ------------------------------------------------------------------------ C8
\* C8: a line that is empty after trimming is skipped: it logs no warning and
\* changes neither metadata nor track; only a non-empty line whose first
\* character is none of A, H, B, L, G logs a warning.
C8_EmptyLine ==
    [][/\ (InLoop /\ CurrentLine = <<>>)
           => (/\ pc' = "parse" /\ log' = log
               /\ UNCHANGED <<flight_date, metadata, position_records>>)
       /\ (Len(log') > Len(log) /\ LastRecord(log').level = "WARNING")
           => (CurrentLine # <<>> /\ RecordType(CurrentLine) = "unknown")]_vars

\* ------------------------------------------------------------------------ C9
\* C9: an `A` line of fewer than 7 characters ends the parse with an error and
\* sets none of manufacturer_id, logger_id, additional_info.
C9_ManufacturerTooShort ==
    [][(InLoop /\ RecordType(CurrentLine) = "A" /\ Len(CurrentLine) < 7)
         => (/\ pc' = "failed" /\ error' # NoError
             /\ UNCHANGED <<manufacturer_id, logger_id, additional_info>>)]_vars

\* ----------------------------------------------------------------------- C10
\* C10, as stated: once set, flight_date never changes, and neither does any
\* of gps_datum, pilot_name, manufacturer_id, logger_id, additional_info;
\* every record of the track carries the same date.
C10_SetOnce ==
    [][/\ flight_date # Unset => flight_date' = flight_date
       /\ gps_datum # <<>> => gps_datum' = gps_datum
       /\ pilot_name # <<>> => pilot_name' = pilot_name
       /\ manufacturer_id # <<>> => manufacturer_id' = manufacturer_id
       /\ logger_id # <<>> => logger_id' = logger_id
       /\ additional_info # <<>> => additional_info' = additional_info
       /\ \A j, k \in 1..Len(position_records') :
             SameDay(position_records'[j].timestamp, position_records'[k].timestamp)]_vars

\* C10, amended: flight_date changes only at an HFDTEDATE line, and every
\* HFDTEDATE line with a well-formed date sets it to its own date, replacing
\* an earlier one; a record carries the date in force when its `B` line is
\* scanned.  gps_datum, pilot_name and the manufacturer fields change only at
\* their own record, which assigns them again each time it occurs.
C10_LastWins ==
    [][/\ flight_date' # flight_date
           => (InLoop /\ StartsWith(CurrentLine, PrefixDate))
       /\ (InLoop /\ WellFormedDateLine(CurrentLine))
           => flight_date' = DateOfLine(CurrentLine)
       /\ Len(position_records') > Len(position_records)
           => SameDay(LastRecord(position_records').timestamp, flight_date)
       /\ gps_datum' # gps_datum
           => (InLoop /\ StartsWith(CurrentLine, PrefixDatum))
       /\ pilot_name' # pilot_name
           => (InLoop /\ StartsWith(CurrentLine, PrefixPilot))
       /\ (InLoop /\ StartsWith(CurrentLine, PrefixPilot))
           => pilot_name' = PilotName(CurrentLine)
       /\ <<manufacturer_id, logger_id, additional_info>>' #
             <<manufacturer_id, logger_id, additional_info>>
           => (InLoop /\ RecordType(CurrentLine) = "A")
       /\ (InLoop /\ RecordType(CurrentLine) = "A")
           => manufacturer_id' = Strip(Slice(CurrentLine, 1, 4))]_vars

\* A second HFDTEDATE line has replaced the date of the first, and the track
\* holds a record of each date.
C10_Witness ==
    /\ Len(position_records) = 2
    /\ ~SameDay(position_records[1].timestamp, position_records[2].timestamp)
    /\ SameDay(position_records[2].timestamp, flight_date)

====
